---- MODULE Spec2Model ----
(***************************************************************************)
(* Resource location, configuration and dictionary storage of sudachi.rs:  *)
(*   sudachi/src/config/anchor.rs   PathAnchor and its PathResolvers       *)
(*   sudachi/src/config/builder.rs  ConfigBuilder (parse, setters,         *)
(*                                  fallback, build)                       *)
(*   sudachi/src/config.rs          Config::new, Config::resolve_paths     *)
(*   sudachi/src/dic/storage.rs     Storage and SudachiDicData             *)
(*                                                                         *)
(* A path is a record [abs, comps]: whether it starts at the filesystem    *)
(* root, and its components.  The empty relative path is the current       *)
(* working directory (PathBuf::new()).                                     *)
(***************************************************************************)
EXTENDS Integers, Sequences, FiniteSets, TLC

VARIABLES
    fs,        \* the filesystem: path -> content of the file there, or NoFile
    anchors,   \* the PathAnchor objects: id -> sequence of resolvers
    builders,  \* the ConfigBuilder objects: id -> builder record, or NoBuilder
    ret,       \* the last call: its name, its arguments and what it returned
    pushed,    \* history: per object, what was handed to it, in call order
    dic,       \* the SudachiDicData object, or NoDic before SudachiDicData::new
    views,     \* history: the byte views handed out by the SudachiDicData object
    config     \* the Config object, or NoConfig before one is made

vars == <<fs, anchors, builders, ret, pushed, dic, views, config>>

----------------------------------------------------------------------------
(* Bounds of the model *)

\* longest resolver chain built by push/append in the anchor specification
MaxChain == 3

\* most fallback calls chained on one builder: a.fallback(b).fallback(c)
MaxFallbacks == 2

----------------------------------------------------------------------------
(* Option and Result values *)

None == [tag |-> "None"]
Some(v) == [tag |-> "Some", val |-> v]
Ok(v) == [tag |-> "Ok", val |-> v]
Err(e) == [tag |-> "Err", err |-> e]

----------------------------------------------------------------------------
(* std::path as used by the configuration layer *)

RelPath(c) == [abs |-> FALSE, comps |-> c]
AbsPath(c) == [abs |-> TRUE, comps |-> c]

\* PathBuf::new(): the empty path, standing for the current working directory
Cwd == RelPath(<<>>)

\* Path::join: an absolute argument replaces the base
Join(root, p) ==
    IF p.abs THEN p ELSE [abs |-> root.abs, comps |-> root.comps \o p.comps]

\* Path::parent: None for the empty path and for the root
Parent(p) ==
    IF p.comps = <<>> THEN None
    ELSE Some([abs |-> p.abs, comps |-> SubSeq(p.comps, 1, Len(p.comps) - 1)])

----------------------------------------------------------------------------
(* config.rs: file name constants *)

DEFAULT_SETTING_FILE == "sudachi.json"
DEFAULT_DICT_FILE == "system_core.dic"
DEFAULT_CHAR_DEF_FILE == "char.def"
DEFAULT_REWRITE_DEF_FILE == "rewrite.def"
DEFAULT_UNK_DEF_FILE == "unk.def"

----------------------------------------------------------------------------
(* DataSource *)

File(p) == [tag |-> "File", path |-> p]
Borrowed(b) == [tag |-> "Borrowed", bytes |-> b]

\* what the filesystem holds at a path: nothing, a JSON document, or other bytes
NoFile == [kind |-> "nofile"]
Json(doc) == [kind |-> "json", doc |-> doc]
RawBytes == [kind |-> "raw"]

\* DataSource::exists: a File exists iff the file is on disk, the in-memory
\* variants always do
DataSourceExists(ds, disk) ==
    IF ds.tag = "File"
    THEN ds.path \in DOMAIN disk /\ disk[ds.path] # NoFile
    ELSE TRUE

----------------------------------------------------------------------------
(* anchor.rs: the resolvers *)

EmbeddedAnchor == [kind |-> "Embedded"]
FileSystemAnchor(root) == [kind |-> "FileSystem", root |-> root]
FileSystemAnchorCwd == FileSystemAnchor(Cwd)

\* the compiled-in bytes, named after the resource they were compiled from
EmbeddedBytes(name) == "embedded:" \o name

\* file names that are not valid UTF-8 (the byte 0xFF follows the name)
NonUtf8Names == {"char.def\\xFF", "sudachi.json\\xFF", "rewrite.def\\xFF", "unk.def\\xFF"}

\* Path::to_str: None unless the whole path is valid UTF-8
ToStr(path) ==
    IF \E i \in 1..Len(path.comps) : path.comps[i] \in NonUtf8Names
    THEN None
    ELSE Some(path)

\* (mutation of EmbeddedCandidate: the file name alone is matched, whatever
\* directory is in front of it)
EmbeddedCandidateFileName(path) ==
    IF ToStr(path) # None /\ Len(path.comps) >= 1
          /\ path.comps[Len(path.comps)]
                \in {DEFAULT_CHAR_DEF_FILE, DEFAULT_REWRITE_DEF_FILE,
                     DEFAULT_UNK_DEF_FILE, DEFAULT_SETTING_FILE}
    THEN Some(Borrowed(EmbeddedBytes(path.comps[Len(path.comps)])))
    ELSE None

\* EmbeddedAnchor::candidate: the whole path string is one of the four names
EmbeddedCandidate(path) ==
    IF ToStr(path) # None /\ ~path.abs /\ Len(path.comps) = 1
    THEN CASE path.comps[1] = DEFAULT_CHAR_DEF_FILE ->
                  Some(Borrowed(EmbeddedBytes(DEFAULT_CHAR_DEF_FILE)))
           [] path.comps[1] = DEFAULT_REWRITE_DEF_FILE ->
                  Some(Borrowed(EmbeddedBytes(DEFAULT_REWRITE_DEF_FILE)))
           [] path.comps[1] = DEFAULT_UNK_DEF_FILE ->
                  Some(Borrowed(EmbeddedBytes(DEFAULT_UNK_DEF_FILE)))
           [] path.comps[1] = DEFAULT_SETTING_FILE ->
                  Some(Borrowed(EmbeddedBytes(DEFAULT_SETTING_FILE)))
           [] OTHER -> None
    ELSE None

\* FileSystemAnchor::candidate: always root.join(path), existence unchecked
FileSystemCandidate(root, path) == Some(File(Join(root, path)))

\* PathResolver::candidate, dispatched on the resolver
Candidate(anchor, path) ==
    IF anchor.kind = "FileSystem"
    THEN FileSystemCandidate(anchor.root, path)
    ELSE EmbeddedCandidate(path)

\* PathResolver::filesystem_roots: None unless overridden by FileSystemAnchor
ResolverRoot(anchor) ==
    IF anchor.kind = "FileSystem" THEN Some(anchor.root) ELSE None

----------------------------------------------------------------------------
(* anchor.rs: PathAnchor *)

PathAnchorEmpty == <<>>
PathAnchorNewDefault == <<EmbeddedAnchor, FileSystemAnchorCwd>>
PathAnchorNewEmbedded == <<EmbeddedAnchor>>
PathAnchorNewCwd == <<FileSystemAnchorCwd>>
PathAnchorNewFilesystem(p) == <<FileSystemAnchor(p)>>

\* Iterator::filter_map over a sequence of Options
RECURSIVE FilterMapSome(_)
FilterMapSome(opts) ==
    IF opts = <<>> THEN <<>>
    ELSE IF Head(opts).tag = "Some"
         THEN <<Head(opts).val>> \o FilterMapSome(Tail(opts))
         ELSE FilterMapSome(Tail(opts))

\* one Option<DataSource> per resolver, in chain order
CandidateOptions(chain, path) ==
    [i \in 1..Len(chain) |-> Candidate(chain[i], path)]

\* PathAnchor::all_candidates
AllCandidates(chain, path) == FilterMapSome(CandidateOptions(chain, path))

\* Iterator::find(|ds| ds.exists())
RECURSIVE FindExisting(_, _)
FindExisting(cands, disk) ==
    IF cands = <<>> THEN None
    ELSE IF DataSourceExists(Head(cands), disk) THEN Some(Head(cands))
         ELSE FindExisting(Tail(cands), disk)

\* first_existing, were it to take the first candidate without asking whether it exists
FirstExistingUnchecked(chain, path, disk) ==
    LET cands == AllCandidates(chain, path)
    IN  IF cands = <<>> THEN None ELSE Some(Head(cands))

\* PathAnchor::first_existing
FirstExisting(chain, path, disk) == FindExisting(AllCandidates(chain, path), disk)

\* Debug rendering of a DataSource: the path of a File, the size of a buffer
RenderDataSource(ds) ==
    IF ds.tag = "File" THEN [text |-> "File", path |-> ds.path]
    ELSE [text |-> ds.tag \o "(bytes)"]

\* format!("{:?}", cand) of an Option<DataSource>
RenderCandidate(cand) ==
    IF cand.tag = "None" THEN [text |-> "None"]
    ELSE [text |-> "Some", inner |-> RenderDataSource(cand.val)]

\* resolution_failure, were it to list all_candidates (which skips the resolvers
\* that have no candidate)
ResolutionFailureSkipNone(chain, path) ==
    LET cands == AllCandidates(chain, path)
    IN  [kind |-> "PathResolution",
         target |-> path,
         candidates |-> [i \in 1..Len(cands) |-> RenderCandidate(Some(cands[i]))]]

\* PathAnchor::resolution_failure
ResolutionFailure(chain, path) ==
    [kind |-> "PathResolution",
     target |-> path,
     candidates |-> [i \in 1..Len(chain) |-> RenderCandidate(Candidate(chain[i], path))]]

\* PathAnchor::resolve
Resolve(chain, path, disk) ==
    LET found == FirstExisting(chain, path, disk)
    IN  IF found.tag = "Some" THEN Ok(found.val)
        ELSE Err(ResolutionFailure(chain, path))

\* exists, were it to ask for any candidate rather than an existing one
ExistsAnyCandidate(chain, path, disk) == AllCandidates(chain, path) # <<>>

\* PathAnchor::exists
Exists(chain, path, disk) == FirstExisting(chain, path, disk).tag = "Some"

\* PathAnchor::filesystem_roots
FilesystemRoots(chain) ==
    FilterMapSome([i \in 1..Len(chain) |-> ResolverRoot(chain[i])])

\* PathAnchor::push: the chain afterwards
PushChain(chain, resolver) == Append(chain, resolver)

\* append, were it to put the other chain first
AppendSelfPrepend(self, other) == other \o self

\* PathAnchor::append (Vec::append): self afterwards; other is drained
AppendSelf(self, other) == self \o other
\* (mutation of AppendOther: the resolvers are copied, other keeps them)
AppendOtherKeep(self, other) == other

AppendOther(self, other) == <<>>

----------------------------------------------------------------------------
(* projection.rs: the projection key of a configuration document *)

\* the JSON value null, as the value of a key (not the JSON string "null")
JsonNull == "\\u0000 (JSON null)"

\* (mutation of SurfaceProjectionTryFrom: an unknown text gives the default)
SurfaceProjectionTryFromLenient(value) ==
    CASE value = "surface" -> Ok("Surface")
      [] value = "normalized" -> Ok("Normalized")
      [] value = "reading" -> Ok("Reading")
      [] value = "dictionary" -> Ok("Dictionary")
      [] value = "dictionary_and_surface" -> Ok("DictionaryAndSurface")
      [] value = "normalized_and_surface" -> Ok("NormalizedAndSurface")
      [] value = "normalized_nouns" -> Ok("NormalizedNouns")
      [] OTHER -> Ok("Surface")

\* impl TryFrom<&str> for SurfaceProjection
SurfaceProjectionTryFrom(value) ==
    CASE value = "surface" -> Ok("Surface")
      [] value = "normalized" -> Ok("Normalized")
      [] value = "reading" -> Ok("Reading")
      [] value = "dictionary" -> Ok("Dictionary")
      [] value = "dictionary_and_surface" -> Ok("DictionaryAndSurface")
      [] value = "normalized_and_surface" -> Ok("NormalizedAndSurface")
      [] value = "normalized_nouns" -> Ok("NormalizedNouns")
      [] OTHER -> Err([kind |-> "InvalidFormat",
                       message |-> "unknown projection: " \o value])

\* serde(rename_all = "snake_case") on SurfaceProjection: token -> variant
DeserializeProjection(token) ==
    CASE token = "surface" -> Some("Surface")
      [] token = "normalized" -> Some("Normalized")
      [] token = "reading" -> Some("Reading")
      [] token = "dictionary" -> Some("Dictionary")
      [] token = "dictionary_and_surface" -> Some("DictionaryAndSurface")
      [] token = "normalized_and_surface" -> Some("NormalizedAndSurface")
      [] token = "normalized_nouns" -> Some("NormalizedNouns")
      [] OTHER -> None

----------------------------------------------------------------------------
(* builder.rs: ConfigBuilder *)

\* the value of a key of a JSON object, if the object has the key
JsonKey(doc, key) == IF key \in DOMAIN doc THEN Some(doc[key]) ELSE None

\* a key with a serde alias: either name sets the field, both are a duplicate
JsonAliased(doc, key, alias) ==
    IF key \in DOMAIN doc THEN Some(doc[key]) ELSE JsonKey(doc, alias)

\* derive(Deserialize) for ConfigBuilder: the anchor is skipped (left at its
\* Default, the empty chain), unknown keys are ignored
Deserialize(content) ==
    IF content.kind # "json" THEN Err([kind |-> "SerdeError"])
    ELSE LET doc == content.doc
             key == JsonKey(doc, "projection")
             \* Option<SurfaceProjection>: a null value is read as None
             proj == IF key = Some(JsonNull) THEN None ELSE key
         IN  IF \/ {"systemDict", "system"} \subseteq DOMAIN doc
                \/ {"userDict", "user"} \subseteq DOMAIN doc
                \/ (proj.tag = "Some" /\ DeserializeProjection(proj.val).tag = "None")
             THEN Err([kind |-> "SerdeError"])
             ELSE Ok([anchor |-> PathAnchorEmpty,
                      path |-> JsonKey(doc, "path"),
                      systemDict |-> JsonAliased(doc, "systemDict", "system"),
                      userDict |-> JsonAliased(doc, "userDict", "user"),
                      characterDefinitionFile |-> JsonKey(doc, "characterDefinitionFile"),
                      connectionCostPlugin |-> JsonKey(doc, "connectionCostPlugin"),
                      inputTextPlugin |-> JsonKey(doc, "inputTextPlugin"),
                      oovProviderPlugin |-> JsonKey(doc, "oovProviderPlugin"),
                      pathRewritePlugin |-> JsonKey(doc, "pathRewritePlugin"),
                      projection |-> IF proj.tag = "Some"
                                     THEN DeserializeProjection(proj.val)
                                     ELSE None])

\* resources/sudachi.json, compiled in as DEFAULT_SETTING_BYTES.  It sets no
\* `path` (config.rs tests::resolve_cfg finds the cwd root alone in the
\* embedded configuration).
DefaultSettings ==
    [characterDefinitionFile |-> RelPath(<<DEFAULT_CHAR_DEF_FILE>>),
     inputTextPlugin |-> <<"DefaultInputTextPlugin">>,
     oovProviderPlugin |-> <<"MeCabOovPlugin", "SimpleOovPlugin">>,
     pathRewritePlugin |-> <<"JoinNumericPlugin", "JoinKatakanaOovPlugin">>]

\* the content behind a compiled-in byte slice
EmbeddedContent(bytes) ==
    IF bytes = EmbeddedBytes(DEFAULT_SETTING_FILE) THEN Json(DefaultSettings)
    ELSE RawBytes

\* ConfigBuilder::with_anchor
WithAnchor(self, anchor) == [self EXCEPT !.anchor = anchor]

\* ConfigBuilder::system_dict
SystemDict(self, dict) == [self EXCEPT !.systemDict = Some(dict)]

\* (mutation of AddUserDict: the path is put in front of the list)
AddUserDictFront(self, dict) ==
    LET dicts == IF self.userDict = None THEN <<>> ELSE self.userDict.val
    IN  [self EXCEPT !.userDict = Some(<<dict>> \o dicts)]

\* ConfigBuilder::add_user_dict: an absent list is created first
AddUserDict(self, dict) ==
    LET dicts == IF self.userDict = None THEN <<>> ELSE self.userDict.val
    IN  [self EXCEPT !.userDict = Some(Append(dicts, dict))]

\* ConfigBuilder::clear_user_dict
ClearUserDict(self) == [self EXCEPT !.userDict = None]

\* ConfigBuilder::empty
ConfigBuilderEmpty == Deserialize(Json([x \in {} |-> x])).val

\* ConfigBuilder::from_source
FromSource(source, disk) ==
    IF source.tag = "File"
    THEN IF DataSourceExists(source, disk)
         THEN Deserialize(disk[source.path])
         ELSE Err([kind |-> "Io", path |-> source.path])
    ELSE Deserialize(EmbeddedContent(source.bytes))

\* ConfigBuilder::from_anchored_file
FromAnchoredFile(config_file, anchor, disk) ==
    LET source == Resolve(anchor, config_file, disk)
    IN  IF source.tag = "Err" THEN source
        ELSE LET cfg == FromSource(source.val, disk)
             IN  IF cfg.tag = "Err" THEN cfg
                 ELSE Ok(WithAnchor(cfg.val, anchor))

\* ConfigBuilder::from_anchor
FromAnchor(anchor, disk) ==
    FromAnchoredFile(RelPath(<<DEFAULT_SETTING_FILE>>), anchor, disk)

\* ConfigBuilder::from_embedded
FromEmbedded(disk) == FromAnchor(PathAnchorNewDefault, disk)

\* the anchor ConfigBuilder::from_file searches: the file's parent directory,
\* then the default chain
FromFileAnchor(config_file) ==
    LET parent == Parent(config_file)
        anchor == IF parent.tag = "Some"
                  THEN PathAnchorNewFilesystem(parent.val)
                  ELSE PathAnchorEmpty
    IN  AppendSelf(anchor, PathAnchorNewDefault)

\* ConfigBuilder::from_file
FromFile(config_file, disk) ==
    FromAnchoredFile(config_file, FromFileAnchor(config_file), disk)

\* ConfigBuilder::from_bytes_and_anchor
FromBytesAndAnchor(data, anchor) ==
    LET cfg == Deserialize(data)
    IN  IF cfg.tag = "Err" THEN cfg ELSE Ok(WithAnchor(cfg.val, anchor))

\* (mutation of FromBytes: the default chain instead of the cwd chain)
FromBytesDefaultAnchor(data) == FromBytesAndAnchor(data, PathAnchorNewDefault)

\* ConfigBuilder::from_bytes
FromBytes(data) == FromBytesAndAnchor(data, PathAnchorNewCwd)

\* (mutation of UnwrapOr: the default is taken even when a value is present)
UnwrapOrDefault(opt, default) == default

\* Option::unwrap_or
UnwrapOr(opt, default) == IF opt.tag = "Some" THEN opt.val ELSE default

\* the anchor of the built Config: the `path` of the builder, when set, is
\* put in front of a clone of the builder's anchor
BuildAnchor(self) ==
    IF self.path.tag = "Some"
    THEN AppendSelf(PathAnchorNewFilesystem(self.path.val), self.anchor)
    ELSE self.anchor

\* ConfigBuilder::build
Build(self) ==
    [anchor |-> BuildAnchor(self),
     system_dict |-> UnwrapOr(self.systemDict, RelPath(<<DEFAULT_DICT_FILE>>)),
     user_dicts |-> UnwrapOr(self.userDict, <<>>),
     character_definition_file |->
         UnwrapOr(self.characterDefinitionFile, RelPath(<<DEFAULT_CHAR_DEF_FILE>>)),
     connection_cost_plugins |-> UnwrapOr(self.connectionCostPlugin, <<>>),
     input_text_plugins |-> UnwrapOr(self.inputTextPlugin, <<>>),
     oov_provider_plugins |-> UnwrapOr(self.oovProviderPlugin, <<>>),
     path_rewrite_plugins |-> UnwrapOr(self.pathRewritePlugin, <<>>),
     projection |-> UnwrapOr(self.projection, "Surface")]

\* the fields of a ConfigBuilder that hold a list
ListFields ==
    {"userDict", "connectionCostPlugin", "inputTextPlugin", "oovProviderPlugin",
     "pathRewritePlugin"}

\* merge_cfg_value!, were an empty list of the base taken for an absent one
MergeCfgValueSkipEmpty(base, o, name) ==
    IF base[name].tag = "Some" /\ ~(name \in ListFields /\ Len(base[name].val) = 0)
    THEN base[name]
    ELSE o[name]

\* merge_cfg_value!, were the other builder's value preferred
MergeCfgValuePreferOther(base, o, name) ==
    IF o[name].tag = "Some" THEN o[name] ELSE base[name]

\* merge_cfg_value!: base.name.or_else(|| o.name.clone())
MergeCfgValue(base, o, name) ==
    IF base[name].tag = "Some" THEN base[name] ELSE o[name]

\* ConfigBuilder::fallback
Fallback(self, other) ==
    [anchor |-> AppendSelf(self.anchor, other.anchor),
     path |-> MergeCfgValue(self, other, "path"),
     systemDict |-> MergeCfgValue(self, other, "systemDict"),
     userDict |-> MergeCfgValue(self, other, "userDict"),
     characterDefinitionFile |-> MergeCfgValue(self, other, "characterDefinitionFile"),
     connectionCostPlugin |-> MergeCfgValue(self, other, "connectionCostPlugin"),
     inputTextPlugin |-> MergeCfgValue(self, other, "inputTextPlugin"),
     oovProviderPlugin |-> MergeCfgValue(self, other, "oovProviderPlugin"),
     pathRewritePlugin |-> MergeCfgValue(self, other, "pathRewritePlugin"),
     projection |-> MergeCfgValue(self, other, "projection")]

----------------------------------------------------------------------------
(* config.rs: Config::new *)

\* Config::new, were the dictionary argument looked at only when no resource
\* directory is given (`else if`)
ConfigNewElseIf(config_file, resource_dir, dictionary_path, disk) ==
    LET loaded == IF config_file.tag = "Some"
                  THEN FromFile(config_file.val, disk)
                  ELSE FromEmbedded(disk)
    IN  IF loaded.tag = "Err" THEN loaded
        ELSE IF resource_dir.tag = "Some"
             THEN Ok(Build(WithAnchor(loaded.val,
                               AppendSelf(PathAnchorNewFilesystem(resource_dir.val),
                                          loaded.val.anchor))))
             ELSE IF dictionary_path.tag = "Some"
                  THEN Ok(Build(SystemDict(loaded.val, dictionary_path.val)))
                  ELSE Ok(Build(loaded.val))

\* Config::new(config_file, resource_dir, dictionary_path); each argument an Option
ConfigNew(config_file, resource_dir, dictionary_path, disk) ==
    LET loaded == IF config_file.tag = "Some"
                  THEN FromFile(config_file.val, disk)
                  ELSE FromEmbedded(disk)
    IN  IF loaded.tag = "Err" THEN loaded
        ELSE LET b1 == IF resource_dir.tag = "Some"
                       THEN WithAnchor(loaded.val,
                                AppendSelf(PathAnchorNewFilesystem(resource_dir.val),
                                           loaded.val.anchor))
                       ELSE loaded.val
                 b2 == IF dictionary_path.tag = "Some"
                       THEN SystemDict(b1, dictionary_path.val)
                       ELSE b1
             IN  Ok(Build(b2))

----------------------------------------------------------------------------
(* The PathAnchor specification: two anchors, composed and queried *)

AnchorIds == {"a", "b"}
NoBuilder == [tag |-> "NoBuilder"]
NoDic == [tag |-> "NoDic"]
NoConfig == [tag |-> "NoConfig"]
BuilderIds == {"A", "B", "C"}

\* directories and names the anchors are built from and asked for
AnchorRoots == {Cwd, RelPath(<<"r">>)}
QueryNames == {RelPath(<<DEFAULT_CHAR_DEF_FILE>>), RelPath(<<"x.dic">>)}
AnchorFiles == {Join(r, n) : r \in AnchorRoots, n \in QueryNames}
Resolvers == {EmbeddedAnchor} \cup {FileSystemAnchor(r) : r \in AnchorRoots}

\* room left for n more resolvers in the two chains together
Room(n) == Len(anchors["a"]) + Len(anchors["b"]) + n <= MaxChain

InitAnchor ==
    /\ fs \in [AnchorFiles -> {NoFile, RawBytes}]
    /\ anchors = [a \in AnchorIds |-> PathAnchorEmpty]
    /\ pushed = [a \in AnchorIds |-> <<>>]
    /\ dic = NoDic
    /\ views = {}
    /\ config = NoConfig
    /\ builders = [b \in BuilderIds |-> NoBuilder]
    /\ ret = [op |-> "none"]

\* a fresh anchor replaces the one held in slot a
Construct(a, chain) ==
    /\ Room(Len(chain) - Len(anchors[a]))
    /\ anchors' = [anchors EXCEPT ![a] = chain]
    /\ pushed' = [pushed EXCEPT ![a] = chain]
    /\ ret' = [op |-> "new", self |-> a]
    /\ UNCHANGED <<fs, builders, dic, views, config>>

NewEmpty(a) == Construct(a, PathAnchorEmpty)
NewDefault(a) == Construct(a, PathAnchorNewDefault)
NewEmbedded(a) == Construct(a, PathAnchorNewEmbedded)
NewCwd(a) == Construct(a, PathAnchorNewCwd)
NewFilesystem(a, p) == Construct(a, PathAnchorNewFilesystem(p))

Push(a, r) ==
    /\ Room(1)
    /\ anchors' = [anchors EXCEPT ![a] = PushChain(anchors[a], r)]
    /\ pushed' = [pushed EXCEPT ![a] = pushed[a] \o <<r>>]
    /\ ret' = [op |-> "push", self |-> a, selfBefore |-> anchors[a], arg |-> r]
    /\ UNCHANGED <<fs, builders, dic, views, config>>

\* a.append(&mut b): two distinct anchors (one cannot be borrowed mutably twice)
AppendAnchor(a, b) ==
    /\ a # b
    /\ anchors' = [anchors EXCEPT ![a] = AppendSelf(anchors[a], anchors[b]),
                                  ![b] = AppendOther(anchors[a], anchors[b])]
    /\ pushed' = [pushed EXCEPT ![a] = pushed[a] \o pushed[b], ![b] = <<>>]
    /\ ret' = [op |-> "append", self |-> a, other |-> b,
               selfBefore |-> anchors[a], otherBefore |-> anchors[b]]
    /\ UNCHANGED <<fs, builders, dic, views, config>>

CallResolve(a, name) ==
    /\ ret' = [op |-> "resolve", chain |-> anchors[a], path |-> name,
               result |-> Resolve(anchors[a], name, fs)]
    /\ UNCHANGED <<fs, anchors, builders, pushed, dic, views, config>>

CallExists(a, name) ==
    /\ ret' = [op |-> "exists", chain |-> anchors[a], path |-> name,
               result |-> Exists(anchors[a], name, fs)]
    /\ UNCHANGED <<fs, anchors, builders, pushed, dic, views, config>>

NextAnchor ==
    \/ \E a \in AnchorIds : NewEmpty(a)
    \/ \E a \in AnchorIds : NewDefault(a)
    \/ \E a \in AnchorIds : NewEmbedded(a)
    \/ \E a \in AnchorIds : NewCwd(a)
    \/ \E a \in AnchorIds, p \in AnchorRoots : NewFilesystem(a, p)
    \/ \E a \in AnchorIds, r \in Resolvers : Push(a, r)
    \/ \E a, b \in AnchorIds : AppendAnchor(a, b)
    \/ \E a \in AnchorIds, n \in QueryNames : CallResolve(a, n)
    \/ \E a \in AnchorIds, n \in QueryNames : CallExists(a, n)

SpecAnchor == InitAnchor /\ [][NextAnchor]_vars

----------------------------------------------------------------------------
(* The Config::new specification: a filesystem of settings files and          *)
(* resources, and the calls that load a configuration from it                 *)

\* the directories of the scenario
DirD == RelPath(<<"d">>)
DirP == RelPath(<<"p">>)
DirR == RelPath(<<"r">>)

\* the settings files a caller names
ConfigPaths ==
    {RelPath(<<DEFAULT_SETTING_FILE>>), RelPath(<<"d", "cfg.json">>),
     AbsPath(<<"e", "cfg.json">>)}

\* the documents a settings file may hold
DocSystem == [systemDict |-> RelPath(<<"a.dic">>)]
DocPath == [path |-> DirP, inputTextPlugin |-> <<>>]
DocBoth == [path |-> DirP, system |-> RelPath(<<"b.dic">>), projection |-> "reading"]

\* every place a settings file is looked for, and what may lie there
ConfigLocations == ConfigPaths \cup {Join(Parent(p).val, p) : p \in ConfigPaths}
ConfigContents(p) ==
    CASE p = RelPath(<<DEFAULT_SETTING_FILE>>) -> {NoFile, Json(DocSystem)}
      [] p = RelPath(<<"d", "cfg.json">>) ->
             {NoFile, RawBytes, Json(DocSystem), Json(DocPath), Json(DocBoth)}
      [] p = RelPath(<<"d", "d", "cfg.json">>) -> {NoFile, Json(DocPath)}
      [] OTHER -> {NoFile, Json(DocBoth)}

\* resources, and where they may lie
ResourceNames == {RelPath(<<"x.dic">>), RelPath(<<DEFAULT_CHAR_DEF_FILE>>)}
ResourceFiles ==
    {Join(DirR, n) : n \in ResourceNames}
        \cup {Join(DirP, RelPath(<<"x.dic">>)), Join(DirD, RelPath(<<"x.dic">>))}

OptionOf(S) == {None} \cup {Some(x) : x \in S}

InitConfig ==
    /\ fs \in [ConfigLocations \cup ResourceFiles ->
                 {NoFile, RawBytes, Json(DocSystem), Json(DocPath), Json(DocBoth)}]
    /\ \A p \in ConfigLocations : fs[p] \in ConfigContents(p)
    /\ \A p \in ResourceFiles : fs[p] \in {NoFile, RawBytes}
    /\ anchors = [a \in AnchorIds |-> PathAnchorEmpty]
    /\ pushed = [a \in AnchorIds |-> <<>>]
    /\ dic = NoDic
    /\ views = {}
    /\ config = NoConfig
    /\ builders = [b \in BuilderIds |-> NoBuilder]
    /\ ret = [op |-> "none"]

CallFromFile(p) ==
    /\ ret' = [op |-> "from_file", config_file |-> p, result |-> FromFile(p, fs)]
    /\ UNCHANGED <<fs, anchors, builders, pushed, dic, views, config>>

CallFromEmbedded ==
    /\ ret' = [op |-> "from_embedded", result |-> FromEmbedded(fs)]
    /\ UNCHANGED <<fs, anchors, builders, pushed, dic, views, config>>

CallConfigNew(config_file, resource_dir, dictionary_path) ==
    /\ ret' = [op |-> "Config::new",
               config_file |-> config_file,
               resource_dir |-> resource_dir,
               dictionary_path |-> dictionary_path,
               result |-> ConfigNew(config_file, resource_dir, dictionary_path, fs)]
    /\ UNCHANGED <<fs, anchors, builders, pushed, dic, views, config>>

NextConfig ==
    \/ \E p \in ConfigPaths : CallFromFile(p)
    \/ CallFromEmbedded
    \/ \E cf \in OptionOf(ConfigPaths), rd \in OptionOf({DirR}),
          dp \in OptionOf({RelPath(<<"my.dic">>)}) : CallConfigNew(cf, rd, dp)

SpecConfig == InitConfig /\ [][NextConfig]_vars

----------------------------------------------------------------------------
(* The ConfigBuilder specification: builders parsed from bytes, merged by   *)
(* fallback (possibly chained) and built                                    *)

\* the documents handed to from_bytes
DocEmpty == [x \in {} |-> x]
DocOne ==
    [path |-> RelPath(<<"p1">>),
     systemDict |-> RelPath(<<"s1.dic">>),
     userDict |-> <<RelPath(<<"u1.dic">>)>>,
     characterDefinitionFile |-> RelPath(<<"c1.def">>),
     connectionCostPlugin |-> <<"cc1">>,
     inputTextPlugin |-> <<"it1">>,
     oovProviderPlugin |-> <<"oov1">>,
     pathRewritePlugin |-> <<"pr1">>,
     projection |-> "normalized"]
DocTwo ==
    [path |-> RelPath(<<"p2">>),
     system |-> RelPath(<<"s2.dic">>),
     user |-> <<>>,
     inputTextPlugin |-> <<>>,
     oovProviderPlugin |-> <<>>,
     pathRewritePlugin |-> <<>>,
     projection |-> "reading",
     comment |-> "ignored"]
BuilderDocs == {DocEmpty, DocOne, DocTwo, DocPath}

\* the anchors handed to from_bytes_and_anchor
BuilderAnchors == {PathAnchorNewFilesystem(DirR), PathAnchorNewDefault}

InitBuilder ==
    /\ fs = [p \in {} |-> NoFile]
    /\ anchors = [a \in AnchorIds |-> PathAnchorEmpty]
    /\ pushed = [a \in AnchorIds |-> <<>>]
    /\ dic = NoDic
    /\ views = {}
    /\ config = NoConfig
    /\ builders = [b \in BuilderIds |-> NoBuilder]
    /\ ret = [op |-> "none"]

\* the builders are bound first, each once, and then merged and built
Binding(x) ==
    /\ builders[x] = NoBuilder
    /\ ret.op \in {"none", "empty", "from_bytes", "from_bytes_and_anchor"}

\* let x = ConfigBuilder::empty()
CallEmpty(x) ==
    /\ Binding(x)
    /\ builders' = [builders EXCEPT ![x] = ConfigBuilderEmpty]
    /\ ret' = [op |-> "empty", self |-> x]
    /\ UNCHANGED <<fs, anchors, pushed, dic, views, config>>

\* let x = ConfigBuilder::from_bytes(doc)?
CallFromBytes(x, doc) ==
    /\ Binding(x)
    /\ builders' = [builders EXCEPT ![x] = FromBytes(Json(doc)).val]
    /\ ret' = [op |-> "from_bytes", self |-> x]
    /\ UNCHANGED <<fs, anchors, pushed, dic, views, config>>

\* let x = ConfigBuilder::from_bytes_and_anchor(doc, anchor)?
CallFromBytesAndAnchor(x, doc, anchor) ==
    /\ Binding(x)
    /\ builders' = [builders EXCEPT ![x] = FromBytesAndAnchor(Json(doc), anchor).val]
    /\ ret' = [op |-> "from_bytes_and_anchor", self |-> x, anchor |-> anchor]
    /\ UNCHANGED <<fs, anchors, pushed, dic, views, config>>

\* x.fallback(&y): x is moved into the call, the merged builder is returned
CallFallback(x, y) ==
    /\ x # y
    /\ builders[x] # NoBuilder
    /\ builders[y] # NoBuilder
    /\ ret' = [op |-> "fallback",
               operands |-> <<builders[x], builders[y]>>,
               self |-> builders[x],
               other |-> builders[y],
               result |-> Fallback(builders[x], builders[y])]
    /\ builders' = [builders EXCEPT ![x] = NoBuilder]
    /\ UNCHANGED <<fs, anchors, pushed, dic, views, config>>

\* (the builder just returned by fallback).fallback(&y)
CallFallbackAgain(y) ==
    /\ ret.op = "fallback"
    /\ Len(ret.operands) <= MaxFallbacks
    /\ builders[y] # NoBuilder
    /\ ret' = [op |-> "fallback",
               operands |-> Append(ret.operands, builders[y]),
               self |-> ret.result,
               other |-> builders[y],
               result |-> Fallback(ret.result, builders[y])]
    /\ UNCHANGED <<fs, anchors, builders, pushed, dic, views, config>>

\* x.build(): x is moved into the call
CallBuild(x) ==
    /\ builders[x] # NoBuilder
    /\ ret' = [op |-> "build",
               operands |-> <<builders[x]>>,
               self |-> builders[x],
               result |-> Build(builders[x])]
    /\ builders' = [builders EXCEPT ![x] = NoBuilder]
    /\ UNCHANGED <<fs, anchors, pushed, dic, views, config>>

\* (the builder just returned by fallback).build()
CallBuildMerged ==
    /\ ret.op = "fallback"
    /\ ret' = [op |-> "build",
               operands |-> ret.operands,
               self |-> ret.result,
               result |-> Build(ret.result)]
    /\ UNCHANGED <<fs, anchors, builders, pushed, dic, views, config>>

NextBuilder ==
    \/ \E x \in BuilderIds : CallEmpty(x)
    \/ \E x \in BuilderIds, d \in BuilderDocs : CallFromBytes(x, d)
    \/ \E x \in BuilderIds, d \in BuilderDocs, a \in BuilderAnchors :
          CallFromBytesAndAnchor(x, d, a)
    \/ \E x, y \in BuilderIds : CallFallback(x, y)
    \/ \E y \in BuilderIds : CallFallbackAgain(y)
    \/ \E x \in BuilderIds : CallBuild(x)
    \/ CallBuildMerged

SpecBuilder == InitBuilder /\ [][NextBuilder]_vars

----------------------------------------------------------------------------
(* Claims about PathAnchor, checked under SpecAnchor *)

\* does resolver i of the chain have a candidate for the path that exists on disk
HasExisting(chain, i, path, disk) ==
    LET c == Candidate(chain[i], path)
    IN  c.tag = "Some" /\ DataSourceExists(c.val, disk)

\* C1: resolve returns the candidate of the earliest resolver, in chain order,
\* whose candidate exists: no resolver before it has an existing candidate, and
\* whenever some resolver has an existing candidate resolve succeeds.
C1_ResolveEarliestExisting ==
    ret.op = "resolve" =>
        /\ ret.result.tag = "Ok" =>
              \E i \in 1..Len(ret.chain) :
                  /\ HasExisting(ret.chain, i, ret.path, fs)
                  /\ Candidate(ret.chain[i], ret.path).val = ret.result.val
                  /\ \A j \in 1..(i - 1) : ~HasExisting(ret.chain, j, ret.path, fs)
        /\ (\E i \in 1..Len(ret.chain) : HasExisting(ret.chain, i, ret.path, fs))
              => ret.result.tag = "Ok"

\* a resolve that skipped a resolver whose file is missing, returned the next
\* one's candidate and left a later existing candidate unused
C1_Witness ==
    /\ ret.op = "resolve"
    /\ ret.result.tag = "Ok"
    /\ Len(ret.chain) = 3
    /\ ~HasExisting(ret.chain, 1, ret.path, fs)
    /\ HasExisting(ret.chain, 2, ret.path, fs)
    /\ HasExisting(ret.chain, 3, ret.path, fs)
    /\ Candidate(ret.chain[3], ret.path) # Candidate(ret.chain[2], ret.path)

\* C8: a failed resolve carries the original query and one rendered entry per
\* resolver of the chain, in chain order: "None" for an embedded resolver (it
\* had no match) and the non-existent path root/name for a filesystem resolver.
C8_FailureListsEveryResolver ==
    (ret.op = "resolve" /\ ret.result.tag = "Err") =>
        LET e == ret.result.err
        IN  /\ e.kind = "PathResolution"
            /\ e.target = ret.path
            /\ Len(e.candidates) = Len(ret.chain)
            /\ \A i \in 1..Len(ret.chain) :
                  IF ret.chain[i].kind = "Embedded"
                  THEN e.candidates[i] = [text |-> "None"]
                  ELSE /\ e.candidates[i] =
                            [text |-> "Some",
                             inner |-> [text |-> "File",
                                        path |-> Join(ret.chain[i].root, ret.path)]]
                       /\ ~DataSourceExists(File(Join(ret.chain[i].root, ret.path)), fs)

\* the chain [Embedded, FileSystem(r)] failing on a name found in neither
C8_Witness ==
    /\ ret.op = "resolve"
    /\ ret.result.tag = "Err"
    /\ ret.chain = <<EmbeddedAnchor, FileSystemAnchor(RelPath(<<"r">>))>>
    /\ Len(ret.result.err.candidates) = 2

\* C9: exists returns a boolean, on every chain, that is true exactly when
\* resolve on the same chain, name and filesystem returns a DataSource.
C9_ExistsIffResolves ==
    ret.op = "exists" =>
        /\ ret.result \in BOOLEAN
        /\ ret.result <=> (Resolve(ret.chain, ret.path, fs).tag = "Ok")

\* exists answered false on a chain that has a candidate, whose file is missing
C9_Witness ==
    /\ ret.op = "exists"
    /\ ret.result = FALSE
    /\ AllCandidates(ret.chain, ret.path) # <<>>

\* C10: an anchor's chain is the concatenation, in call order, of the resolvers
\* pushed and appended to it; append leaves self = old self followed by old
\* other, and a name both chains resolve resolves as old self resolved it.
C10_PushAppendConcatenate ==
    /\ \A a \in AnchorIds : anchors[a] = pushed[a]
    /\ ret.op = "push" => anchors[ret.self] = ret.selfBefore \o <<ret.arg>>
    /\ ret.op = "append" =>
          /\ anchors[ret.self] = ret.selfBefore \o ret.otherBefore
          /\ \A n \in QueryNames :
                (Exists(ret.selfBefore, n, fs) /\ Exists(ret.otherBefore, n, fs))
                    => Resolve(anchors[ret.self], n, fs) = Resolve(ret.selfBefore, n, fs)

\* an append of a non-empty chain to a two-resolver chain, where both chains
\* resolve the same name to different candidates
C10_Witness ==
    /\ ret.op = "append"
    /\ Len(ret.selfBefore) = 2
    /\ Len(ret.otherBefore) = 1
    /\ ret.selfBefore[1] # ret.selfBefore[2]
    /\ \E n \in QueryNames :
          /\ Exists(ret.selfBefore, n, fs)
          /\ Exists(ret.otherBefore, n, fs)
          /\ Resolve(ret.selfBefore, n, fs) # Resolve(ret.otherBefore, n, fs)

----------------------------------------------------------------------------
(* Claims about from_file and Config::new, checked under SpecConfig *)

\* the settings of a builder, its anchor left aside
Settings(b) == [b EXCEPT !.anchor = PathAnchorEmpty]

\* C2: from_file(p) parses the document stored at p itself: with a JSON file at
\* p the builder holds that file's settings, with no file at p the call fails.
C2_FromFileLoadsNamedFile ==
    ret.op = "from_file" =>
        /\ fs[ret.config_file] = NoFile => ret.result.tag = "Err"
        /\ fs[ret.config_file].kind = "json" =>
              /\ ret.result.tag = "Ok"
              /\ Settings(ret.result.val) = Deserialize(fs[ret.config_file]).val

\* C3: with an explicit resource_dir R, the filesystem resolver for R is the
\* first of the built anchor, and a resource present under R resolves to R's copy.
C3_ResourceDirSearchedFirst ==
    (ret.op = "Config::new" /\ ret.resource_dir.tag = "Some" /\ ret.result.tag = "Ok") =>
        LET R == ret.resource_dir.val
            anchor == ret.result.val.anchor
        IN  /\ anchor # <<>>
            /\ anchor[1] = FileSystemAnchor(R)
            /\ \A n \in ResourceNames :
                  DataSourceExists(File(Join(R, n)), fs)
                      => Resolve(anchor, n, fs) = Ok(File(Join(R, n)))

\* the builder Config::new starts from: the parsed settings document
LoadedBuilder(config_file, disk) ==
    IF config_file.tag = "Some" THEN FromFile(config_file.val, disk)
    ELSE FromEmbedded(disk)

----------------------------------------------------------------------------
(* Claims about fallback and build, checked under SpecBuilder *)

\* the optional fields of a ConfigBuilder
FieldNames ==
    {"path", "systemDict", "userDict", "characterDefinitionFile",
     "connectionCostPlugin", "inputTextPlugin", "oovProviderPlugin",
     "pathRewritePlugin", "projection"}

\* the value of field f in the first of the builders bs that sets it
RECURSIVE LeftmostSet(_, _)
LeftmostSet(bs, f) ==
    IF bs = <<>> THEN None
    ELSE IF Head(bs)[f].tag = "Some" THEN Head(bs)[f]
         ELSE LeftmostSet(Tail(bs), f)

\* the anchors of the builders bs, one after the other
RECURSIVE AnchorsInOrder(_)
AnchorsInOrder(bs) ==
    IF bs = <<>> THEN <<>> ELSE Head(bs).anchor \o AnchorsInOrder(Tail(bs))

\* C5: A.fallback(B) holds, for each of the nine fields, A's value when A has
\* one (even an empty list) and B's value otherwise, and its anchor is A's
\* resolvers followed by B's.
C5_FallbackFieldByField ==
    ret.op = "fallback" =>
        /\ \A f \in FieldNames :
              ret.result[f] = IF ret.self[f].tag = "Some" THEN ret.self[f]
                              ELSE ret.other[f]
        /\ ret.result.anchor = ret.self.anchor \o ret.other.anchor
        /\ DOMAIN ret.result = FieldNames \cup {"anchor"}

\* a fallback where A's empty list beats B's non-empty one, A's path beats
\* B's, a field A lacks comes from B, and both anchors are non-empty
C5_Witness ==
    /\ ret.op = "fallback"
    /\ ret.self.userDict = Some(<<>>)
    /\ ret.other.userDict.tag = "Some"
    /\ ret.other.userDict.val # <<>>
    /\ ret.result.userDict = Some(<<>>)
    /\ ret.self.path.tag = "Some"
    /\ ret.other.path.tag = "Some"
    /\ ret.self.path # ret.other.path
    /\ ret.self.characterDefinitionFile.tag = "None"
    /\ ret.result.characterDefinitionFile.tag = "Some"
    /\ ret.self.anchor # <<>>
    /\ ret.other.anchor # <<>>
    /\ ret.self.anchor # ret.other.anchor

\* C6: a.fallback(b).fallback(c) equals a.fallback(b.fallback(c)) in every
\* field and in the anchor; under either shape each field holds the leftmost
\* set value and the anchor is a's, b's, c's resolvers in that order.
C6_FallbackAssociative ==
    (ret.op = "fallback" /\ Len(ret.operands) >= 3) =>
        /\ Len(ret.operands) = 3 =>
              ret.result = Fallback(ret.operands[1],
                                    Fallback(ret.operands[2], ret.operands[3]))
        /\ \A f \in FieldNames : ret.result[f] = LeftmostSet(ret.operands, f)
        /\ ret.result.anchor = AnchorsInOrder(ret.operands)

\* a chain of three builders with three different paths and three non-empty
\* anchors, a field set by the last two only and a field set by the last only
C6_Witness ==
    /\ ret.op = "fallback"
    /\ Len(ret.operands) = 3
    /\ \A i \in 1..3 : ret.operands[i].path.tag = "Some"
    /\ \A i \in 1..3 : ret.operands[i].anchor # <<>>
    /\ Cardinality({ret.operands[i].path : i \in 1..3}) = 3
    /\ ret.operands[1].systemDict.tag = "None"
    /\ ret.operands[2].systemDict.tag = "Some"
    /\ ret.operands[3].systemDict.tag = "Some"
    /\ ret.operands[2].systemDict # ret.operands[3].systemDict
    /\ ret.operands[1].connectionCostPlugin.tag = "None"
    /\ ret.operands[2].connectionCostPlugin.tag = "None"
    /\ ret.operands[3].connectionCostPlugin.tag = "Some"

\* C7: in the Config built by A.fallback(B).build() nothing that comes from B
\* is searched before a resolver of A's anchor: the built anchor starts with
\* A's `path` directory, if A has one, followed by A's resolvers.
C7_NothingOfOtherAheadOfSelf ==
    (ret.op = "build" /\ Len(ret.operands) = 2) =>
        LET A == ret.operands[1]
            own == IF A.path.tag = "Some"
                   THEN <<FileSystemAnchor(A.path.val)>> \o A.anchor
                   ELSE A.anchor
        IN  /\ Len(ret.result.anchor) >= Len(own)
            /\ SubSeq(ret.result.anchor, 1, Len(own)) = own

----------------------------------------------------------------------------
(* config.rs: Config::resolve_paths.  A String is the sequence of its      *)
(* characters, each a one-character string.                                 *)

\* str::starts_with
StartsWith(s, prefix) ==
    Len(s) >= Len(prefix) /\ SubSeq(s, 1, Len(prefix)) = prefix

\* String::replace_range(from..to, with): the range is 0-based and half-open
ReplaceRange(s, from, to, with) ==
    SubSeq(s, 1, from) \o with \o SubSeq(s, to + 1, Len(s))

\* (mutation of InsertStr: the text is put at the end of the string)
InsertStrAtEnd(s, idx, str) == s \o str

\* String::insert_str(idx, str)
InsertStr(s, idx, str) ==
    SubSeq(s, 1, idx) \o str \o SubSeq(s, idx + 1, Len(s))

\* the characters of a path whose components are one character long:
\* the components, a "/" between two of them and one in front when absolute
RECURSIVE JoinComps(_)
JoinComps(comps) ==
    IF comps = <<>> THEN <<>>
    ELSE IF Len(comps) = 1 THEN <<comps[1]>>
    ELSE <<comps[1], "/">> \o JoinComps(Tail(comps))

\* Path::to_string_lossy / Path::to_str of a UTF-8 path
PathString(p) == (IF p.abs THEN <<"/">> ELSE <<>>) \o JoinComps(p.comps)

\* root.join(&path) on the strings held by the two paths (PathBuf::push): an
\* absolute path replaces the root, otherwise a separator is added unless the
\* root is empty or already ends with one
JoinString(root, path) ==
    IF StartsWith(path, <<"/">>) THEN path
    ELSE IF root # <<>> /\ root[Len(root)] # "/" THEN root \o <<"/">> \o path
    ELSE root \o path

\* current_exe_dir: the parent directory of the running executable
CurrentExeDir(exe) == PathString(Parent(exe).val)

\* the two prefixes resolve_paths tests for, and the text it inserts
ExePrefix == <<"$", "e", "x", "e">>
CfgPrefixSlash == <<"$", "c", "f", "g", "/">>
CfgPrefixBackslash == <<"$", "c", "f", "g", "\\">>
DepsDir == <<"/", "d", "e", "p", "s">>

\* (mutation of ResolvePathsCfg: the path is glued to the root, not joined)
ResolvePathsCfgConcat(roots, path) ==
    [i \in 1..Len(roots) |-> PathString(roots[i]) \o path]

\* the loop of resolve_paths over the filesystem roots of the anchor
ResolvePathsCfg(roots, path) ==
    [i \in 1..Len(roots) |-> JoinString(PathString(roots[i]), path)]

\* Config::resolve_paths, in the process whose CURRENT_EXE_DIR is exe_dir
ResolvePaths(self, path, exe_dir) ==
    IF StartsWith(path, ExePrefix)
    THEN LET path1 == ReplaceRange(path, 0, 4, exe_dir)
             path2 == InsertStr(path1, Len(exe_dir), DepsDir)
         IN  <<path2, path1>>
    ELSE IF StartsWith(path, CfgPrefixSlash) \/ StartsWith(path, CfgPrefixBackslash)
    THEN ResolvePathsCfg(FilesystemRoots(self.anchor), ReplaceRange(path, 0, 5, <<>>))
    ELSE <<path>>

\* Config::minimal_at
MinimalAt(resource_dir) ==
    [anchor |-> PathAnchorNewFilesystem(resource_dir),
     system_dict |-> RelPath(<<DEFAULT_DICT_FILE>>),
     user_dicts |-> <<>>,
     character_definition_file |-> RelPath(<<DEFAULT_CHAR_DEF_FILE>>),
     connection_cost_plugins |-> <<>>,
     input_text_plugins |-> <<>>,
     oov_provider_plugins |-> <<"SimpleOovPlugin">>,
     path_rewrite_plugins |-> <<>>,
     projection |-> "Surface"]

\* Config::new_embedded
ConfigNewEmbedded(disk) ==
    LET builder == FromEmbedded(disk)
    IN  IF builder.tag = "Err" THEN builder ELSE Ok(Build(builder.val))

----------------------------------------------------------------------------
(* The resolve_paths specification: a Config is made, and strings are      *)
(* passed to its resolve_paths                                              *)

\* longest <rest> that follows the head of a string passed to resolve_paths
MaxRest == 2

\* the strings of RestChars of a given length
RECURSIVE StringsOfLen(_)
StringsOfLen(n) ==
    IF n = 0 THEN {<<>>}
    ELSE {<<c>> \o s : c \in {"d", "/"}, s \in StringsOfLen(n - 1)}

PathRests == UNION {StringsOfLen(n) : n \in 0..MaxRest}

\* how the strings passed to resolve_paths begin
PathHeads ==
    {<<>>,
     <<"$", "e", "x", "e">>,
     <<"$", "c", "f", "g">>,
     <<"$", "c", "f", "g", "\\">>,
     <<"$", "e", "x">>,
     <<"$", "E", "X", "E">>,
     <<"d", "$", "c", "f", "g">>}

\* where the running executable may lie
Executables == {AbsPath(<<"b", "s">>), AbsPath(<<"s">>)}

\* the anchors and documents handed to from_bytes_and_anchor
PathsAnchors ==
    {PathAnchorEmpty,
     PathAnchorNewEmbedded,
     PathAnchorNewDefault,
     <<FileSystemAnchor(DirR), EmbeddedAnchor, FileSystemAnchor(AbsPath(<<"e">>))>>}
PathsDocs == {DocEmpty, DocPath}

InitPaths ==
    /\ fs = [p \in {} |-> NoFile]
    /\ anchors = [a \in AnchorIds |-> PathAnchorEmpty]
    /\ pushed = [a \in AnchorIds |-> <<>>]
    /\ builders = [b \in BuilderIds |-> NoBuilder]
    /\ dic = NoDic
    /\ views = {}
    /\ config = NoConfig
    /\ ret = [op |-> "none"]

\* config = Config::new_embedded()?
MakeNewEmbedded ==
    /\ config' = ConfigNewEmbedded(fs).val
    /\ ret' = [op |-> "new_embedded"]
    /\ UNCHANGED <<fs, anchors, builders, pushed, dic, views>>

\* config = Config::minimal_at(dir)
MakeMinimalAt(dir) ==
    /\ config' = MinimalAt(dir)
    /\ ret' = [op |-> "minimal_at", resource_dir |-> dir]
    /\ UNCHANGED <<fs, anchors, builders, pushed, dic, views>>

\* config = ConfigBuilder::from_bytes_and_anchor(doc, anchor)?.build()
MakeBuilt(doc, anchor) ==
    /\ config' = Build(FromBytesAndAnchor(Json(doc), anchor).val)
    /\ ret' = [op |-> "built"]
    /\ UNCHANGED <<fs, anchors, builders, pushed, dic, views>>

\* config.resolve_paths(path), in a process started from the executable exe
CallResolvePaths(path, exe) ==
    /\ config # NoConfig
    /\ ret' = [op |-> "resolve_paths",
               path |-> path,
               exe_dir |-> CurrentExeDir(exe),
               result |-> ResolvePaths(config, path, CurrentExeDir(exe))]
    /\ UNCHANGED <<fs, anchors, builders, pushed, dic, views, config>>

NextPaths ==
    \/ MakeNewEmbedded
    \/ \E dir \in {DirR, AbsPath(<<"e">>)} : MakeMinimalAt(dir)
    \/ \E d \in PathsDocs, a \in PathsAnchors : MakeBuilt(d, a)
    \/ \E h \in PathHeads, r \in PathRests, exe \in Executables :
          CallResolvePaths(h \o r, exe)

SpecPaths == InitPaths /\ [][NextPaths]_vars

----------------------------------------------------------------------------
(* Claims about Config::resolve_paths, checked under SpecPaths *)

ExeToken == <<"$", "e", "x", "e", "/">>

\* the filesystem resolvers of a chain, in chain order
FileSystemResolvers(chain) == SelectSeq(chain, LAMBDA r : r.kind = "FileSystem")

\* a string read as a path: absolute when it starts with a separator, and
\* its components are the non-empty runs between separators
RECURSIVE SplitComps(_, _)
SplitComps(s, cur) ==
    IF s = <<>> THEN (IF cur = <<>> THEN <<>> ELSE <<cur>>)
    ELSE IF Head(s) = "/"
         THEN (IF cur = <<>> THEN <<>> ELSE <<cur>>) \o SplitComps(Tail(s), <<>>)
         ELSE SplitComps(Tail(s), Append(cur, Head(s)))
ParsePath(s) == [abs |-> s # <<>> /\ Head(s) = "/", comps |-> SplitComps(s, <<>>)]

\* a root of the model, its components spelled out as strings
SpelledOut(p) == [abs |-> p.abs, comps |-> [i \in 1..Len(p.comps) |-> <<p.comps[i]>>]]

\* C11: resolve_paths returns its input unchanged, as a one-element list,
\* for every string that does not begin with "$exe/", "$cfg/" or "$cfg\"
C11_UnchangedWithoutToken ==
    (/\ ret.op = "resolve_paths"
     /\ ~StartsWith(ret.path, ExeToken)
     /\ ~StartsWith(ret.path, CfgPrefixSlash)
     /\ ~StartsWith(ret.path, CfgPrefixBackslash))
    => ret.result = <<ret.path>>

\* C12: resolve_paths("$cfg/<rest>") returns one string per filesystem
\* resolver of the Config's anchor, in anchor order, each the root of that
\* resolver joined with <rest>; embedded resolvers contribute nothing, and
\* the default embedded configuration yields the single entry <rest>
C12_CfgOnePerFilesystemRoot ==
    (ret.op = "resolve_paths" /\ StartsWith(ret.path, CfgPrefixSlash))
    => LET rest == SubSeq(ret.path, 6, Len(ret.path))
           fsr == FileSystemResolvers(config.anchor)
       IN  /\ Len(ret.result) = Len(fsr)
           /\ \A i \in 1..Len(fsr) :
                 ParsePath(ret.result[i])
                     = Join(SpelledOut(fsr[i].root), ParsePath(rest))
           /\ (config.anchor = PathAnchorNewDefault => ret.result = <<rest>>)

C12_Witness ==
    /\ ret.op = "resolve_paths"
    /\ StartsWith(ret.path, CfgPrefixSlash)
    /\ Len(ret.path) > 5
    /\ Len(ret.result) = 2
    /\ \E i \in 1..Len(config.anchor) : config.anchor[i].kind = "Embedded"

\* C13: resolve_paths("$exe/<rest>") returns exactly two strings, in the
\* order <exe-parent-dir>/deps/<rest> then <exe-parent-dir>/<rest>,
\* whatever the anchor of the Config
C13_ExeDepsThenExe ==
    (ret.op = "resolve_paths" /\ StartsWith(ret.path, ExeToken))
    => LET rest == SubSeq(ret.path, 6, Len(ret.path))
       IN  ret.result = <<ret.exe_dir \o <<"/", "d", "e", "p", "s", "/">> \o rest,
                          ret.exe_dir \o <<"/">> \o rest>>

C13_Witness ==
    /\ ret.op = "resolve_paths"
    /\ StartsWith(ret.path, ExeToken)
    /\ Len(ret.path) > 5
    /\ Len(ret.result) = 2
    /\ FileSystemResolvers(config.anchor) # <<>>

----------------------------------------------------------------------------
(* Claims about build and from_bytes, checked under SpecBuilder *)

\* the value a Config field gets from an optional builder field
PresentOr(opt, default) == IF opt = None THEN default ELSE opt.val

\* C14: build never fails and substitutes a default for every absent field:
\* system_dict = system_core.dic, character_definition_file = char.def,
\* projection = Surface, user_dicts and the four plugin lists empty; every
\* present field is copied unchanged
C14_BuildDefaults ==
    ret.op = "build"
    => LET b == ret.self
           c == ret.result
       IN  /\ DOMAIN c = {"anchor", "system_dict", "user_dicts",
                          "character_definition_file", "connection_cost_plugins",
                          "input_text_plugins", "oov_provider_plugins",
                          "path_rewrite_plugins", "projection"}
           /\ c.system_dict = PresentOr(b.systemDict, RelPath(<<"system_core.dic">>))
           /\ c.character_definition_file
                  = PresentOr(b.characterDefinitionFile, RelPath(<<"char.def">>))
           /\ c.projection = PresentOr(b.projection, "Surface")
           /\ c.user_dicts = PresentOr(b.userDict, <<>>)
           /\ c.connection_cost_plugins = PresentOr(b.connectionCostPlugin, <<>>)
           /\ c.input_text_plugins = PresentOr(b.inputTextPlugin, <<>>)
           /\ c.oov_provider_plugins = PresentOr(b.oovProviderPlugin, <<>>)
           /\ c.path_rewrite_plugins = PresentOr(b.pathRewritePlugin, <<>>)

C14_Witness ==
    /\ ret.op = "build"
    /\ ret.self.characterDefinitionFile = None
    /\ ret.self.connectionCostPlugin = None
    /\ ret.self.systemDict # None
    /\ ret.self.projection # None
    /\ ret.result.projection # "Surface"

\* filesystems a built Config is asked to resolve char.def on
NothingOnDisk == [p \in {} |-> NoFile]
CharDefInCwd == [p \in {RelPath(<<"char.def">>)} |-> RawBytes]

\* C15 as stated: from_bytes anchors the parsed builder with the default
\* chain [EmbeddedResolver, FileSystemResolver(cwd)], so a Config built from
\* it resolves char.def without any file on disk; from_bytes_and_anchor uses
\* exactly the given anchor
C15_FromBytesDefaultChain ==
    /\ ret.op = "from_bytes"
       => /\ builders[ret.self].anchor = <<EmbeddedAnchor, FileSystemAnchor(Cwd)>>
          /\ Resolve(Build(builders[ret.self]).anchor,
                     RelPath(<<"char.def">>), NothingOnDisk).tag = "Ok"
    /\ ret.op = "from_bytes_and_anchor"
       => builders[ret.self].anchor = ret.anchor

\* C15 amended: from_bytes anchors the parsed builder with the cwd-only chain
\* [FileSystemResolver(cwd)]; a Config built from it resolves char.def only
\* from a file on disk, never from the compiled-in resources;
\* from_bytes_and_anchor uses exactly the given anchor
C15_FromBytesCwdChain ==
    /\ ret.op = "from_bytes"
       => LET b == builders[ret.self]
          IN  /\ b.anchor = <<FileSystemAnchor(Cwd)>>
              /\ Resolve(Build(b).anchor,
                         RelPath(<<"char.def">>), NothingOnDisk).tag = "Err"
              /\ Resolve(Build(b).anchor, RelPath(<<"char.def">>), CharDefInCwd)
                     = Ok(File(RelPath(<<"char.def">>)))
    /\ ret.op = "from_bytes_and_anchor"
       => builders[ret.self].anchor = ret.anchor

C15_Witness ==
    /\ ret.op = "from_bytes"
    /\ builders[ret.self].path # None
    /\ builders[ret.self].systemDict # None

----------------------------------------------------------------------------
(* The setter specification: builders are parsed, changed by their setters, *)
(* passed to fallback and built.  pushed[x] is the list of setter calls     *)
(* made on builder x, after the builder as it was parsed.                   *)

\* most setter calls made on the builders that are alive
MaxSetterCalls == 3

SetterIds == {"A", "B"}
SetterDocs == {DocEmpty, DocOne, DocTwo}
SystemDictArgs == {RelPath(<<"d1.dic">>), RelPath(<<"d2.dic">>)}
UserDictArgs == {RelPath(<<"v1.dic">>), RelPath(<<"v2.dic">>)}

InitSetters ==
    /\ fs = [p \in {} |-> NoFile]
    /\ anchors = [a \in AnchorIds |-> PathAnchorEmpty]
    /\ pushed = [b \in BuilderIds |-> <<>>]
    /\ builders = [b \in BuilderIds |-> NoBuilder]
    /\ dic = NoDic
    /\ views = {}
    /\ config = NoConfig
    /\ ret = [op |-> "none"]

\* the setter calls made on x since it was parsed
SetterCalls(x) == IF pushed[x] = <<>> THEN 0 ELSE Len(pushed[x]) - 1

\* a further setter call may be made on x
MaySet(x) ==
    /\ builders[x] # NoBuilder
    /\ SetterCalls("A") + SetterCalls("B") < MaxSetterCalls

\* let x = ConfigBuilder::from_bytes(doc)?
BindFromBytes(x, doc) ==
    /\ builders[x] = NoBuilder
    /\ builders' = [builders EXCEPT ![x] = FromBytes(Json(doc)).val]
    /\ pushed' = [pushed EXCEPT ![x] =
                      <<[call |-> "from_bytes", builder |-> FromBytes(Json(doc)).val]>>]
    /\ ret' = [op |-> "from_bytes", self |-> x, before |-> builders]
    /\ UNCHANGED <<fs, anchors, dic, views, config>>

\* let x = x.system_dict(d)
CallSystemDict(x, d) ==
    /\ MaySet(x)
    /\ builders' = [builders EXCEPT ![x] = SystemDict(builders[x], d)]
    /\ pushed' = [pushed EXCEPT ![x] = Append(@, [call |-> "system_dict", arg |-> d])]
    /\ ret' = [op |-> "system_dict", self |-> x, before |-> builders]
    /\ UNCHANGED <<fs, anchors, dic, views, config>>

\* let x = x.add_user_dict(u)
CallAddUserDict(x, u) ==
    /\ MaySet(x)
    /\ builders' = [builders EXCEPT ![x] = AddUserDict(builders[x], u)]
    /\ pushed' = [pushed EXCEPT ![x] = Append(@, [call |-> "add_user_dict", arg |-> u])]
    /\ ret' = [op |-> "add_user_dict", self |-> x, before |-> builders]
    /\ UNCHANGED <<fs, anchors, dic, views, config>>

\* let x = x.clear_user_dict()
CallClearUserDict(x) ==
    /\ MaySet(x)
    /\ builders' = [builders EXCEPT ![x] = ClearUserDict(builders[x])]
    /\ pushed' = [pushed EXCEPT ![x] = Append(@, [call |-> "clear_user_dict"])]
    /\ ret' = [op |-> "clear_user_dict", self |-> x, before |-> builders]
    /\ UNCHANGED <<fs, anchors, dic, views, config>>

\* x.fallback(&y): x is moved into the call, y is borrowed
CallFallbackOn(x, y) ==
    /\ x # y
    /\ builders[x] # NoBuilder
    /\ builders[y] # NoBuilder
    /\ builders' = [builders EXCEPT ![x] = NoBuilder]
    /\ pushed' = [pushed EXCEPT ![x] = <<>>]
    /\ ret' = [op |-> "fallback", self |-> x, other |-> y, before |-> builders,
               result |-> Fallback(builders[x], builders[y])]
    /\ UNCHANGED <<fs, anchors, dic, views, config>>

\* x.build(): x is moved into the call
CallBuildAfterSetters(x) ==
    /\ builders[x] # NoBuilder
    /\ builders' = [builders EXCEPT ![x] = NoBuilder]
    /\ pushed' = [pushed EXCEPT ![x] = <<>>]
    /\ ret' = [op |-> "build", self |-> x, before |-> builders,
               parsed |-> pushed[x][1].builder,
               calls |-> Tail(pushed[x]),
               result |-> Build(builders[x])]
    /\ UNCHANGED <<fs, anchors, dic, views, config>>

NextSetters ==
    \/ \E x \in SetterIds, d \in SetterDocs : BindFromBytes(x, d)
    \/ \E x \in SetterIds, d \in SystemDictArgs : CallSystemDict(x, d)
    \/ \E x \in SetterIds, u \in UserDictArgs : CallAddUserDict(x, u)
    \/ \E x \in SetterIds : CallClearUserDict(x)
    \/ \E x, y \in SetterIds : CallFallbackOn(x, y)
    \/ \E x \in SetterIds : CallBuildAfterSetters(x)

SpecSetters == InitSetters /\ [][NextSetters]_vars

----------------------------------------------------------------------------
(* Claims about the builder setters, checked under SpecSetters *)

\* the positions of the calls of one name in a list of calls
CallsOf(calls, name) == {i \in 1..Len(calls) : calls[i].call = name}

\* the greatest element of a non-empty set of numbers
Greatest(S) == CHOOSE i \in S : \A j \in S : j <= i

\* C16: after any sequence of system_dict(d), add_user_dict(u) and
\* clear_user_dict(), build() yields system_dict = the last d set, and
\* user_dicts = the empty list after the last clear_user_dict, or the
\* parsed list if never cleared, followed by every u added afterwards in
\* call order; no other builder is changed by these calls, nor by being
\* passed as the argument of fallback
C16_SettersComposeAndStayLocal ==
    /\ ret.op = "build"
       => LET calls == ret.calls
              sets == CallsOf(calls, "system_dict")
              clears == CallsOf(calls, "clear_user_dict")
              from == IF clears = {} THEN 0 ELSE Greatest(clears)
              base == IF clears = {}
                      THEN PresentOr(ret.parsed.userDict, <<>>)
                      ELSE <<>>
              adds == SelectSeq(SubSeq(calls, from + 1, Len(calls)),
                                LAMBDA c : c.call = "add_user_dict")
          IN  /\ sets # {} => ret.result.system_dict = calls[Greatest(sets)].arg
              /\ sets = {} => ret.result.system_dict
                                  = PresentOr(ret.parsed.systemDict,
                                              RelPath(<<"system_core.dic">>))
              /\ ret.result.user_dicts
                     = base \o [i \in 1..Len(adds) |-> adds[i].arg]
    /\ ret.op \in {"system_dict", "add_user_dict", "clear_user_dict",
                   "fallback", "build"}
       => \A y \in BuilderIds \ {ret.self} : builders[y] = ret.before[y]

C16_Witness ==
    /\ ret.op = "build"
    /\ ret.parsed.userDict # None
    /\ Len(ret.calls) = MaxSetterCalls
    /\ ret.calls[1].call = "clear_user_dict"
    /\ ret.calls[2].call = "add_user_dict"
    /\ ret.calls[3].call = "system_dict"
    /\ \E y \in SetterIds \ {ret.self} : builders[y] # NoBuilder

----------------------------------------------------------------------------
(* The resolver specification: single resolvers are asked for a candidate  *)
(* and for their filesystem root                                            *)

EmbeddedNames ==
    {DEFAULT_CHAR_DEF_FILE, DEFAULT_REWRITE_DEF_FILE,
     DEFAULT_UNK_DEF_FILE, DEFAULT_SETTING_FILE}

\* the embedded names in another case
UpperCase ==
    [n \in EmbeddedNames |->
        CASE n = DEFAULT_CHAR_DEF_FILE -> "CHAR.DEF"
          [] n = DEFAULT_REWRITE_DEF_FILE -> "REWRITE.DEF"
          [] n = DEFAULT_UNK_DEF_FILE -> "UNK.DEF"
          [] OTHER -> "SUDACHI.JSON"]
Capitalised ==
    [n \in EmbeddedNames |->
        CASE n = DEFAULT_CHAR_DEF_FILE -> "Char.def"
          [] n = DEFAULT_REWRITE_DEF_FILE -> "Rewrite.def"
          [] n = DEFAULT_UNK_DEF_FILE -> "Unk.def"
          [] OTHER -> "Sudachi.json"]

\* the paths a resolver is asked for: each embedded name as it is, behind a
\* directory component, absolute, as a directory, in another case and
\* followed by a non-UTF-8 byte; and paths that name no embedded resource
CandidatePaths ==
    UNION {{RelPath(<<n>>),
            RelPath(<<".", n>>),
            RelPath(<<"d", n>>),
            AbsPath(<<n>>),
            RelPath(<<n, "x">>),
            RelPath(<<UpperCase[n]>>),
            RelPath(<<Capitalised[n]>>)} : n \in EmbeddedNames}
    \cup {RelPath(<<n>>) : n \in NonUtf8Names}
    \cup {Cwd, RelPath(<<DEFAULT_DICT_FILE>>), RelPath(<<"x">>)}

SingleResolvers ==
    {EmbeddedAnchor, FileSystemAnchorCwd, FileSystemAnchor(DirR),
     FileSystemAnchor(AbsPath(<<"e">>))}

InitResolver ==
    /\ fs = [p \in {} |-> NoFile]
    /\ anchors = [a \in AnchorIds |-> PathAnchorEmpty]
    /\ pushed = [a \in AnchorIds |-> <<>>]
    /\ builders = [b \in BuilderIds |-> NoBuilder]
    /\ dic = NoDic
    /\ views = {}
    /\ config = NoConfig
    /\ ret = [op |-> "none"]

\* resolver.candidate(path)
CallCandidate(resolver, path) ==
    /\ ret' = [op |-> "candidate", resolver |-> resolver, path |-> path,
               result |-> Candidate(resolver, path)]
    /\ UNCHANGED <<fs, anchors, builders, pushed, dic, views, config>>

\* resolver.filesystem_roots()
CallFilesystemRoots(resolver) ==
    /\ ret' = [op |-> "filesystem_roots", resolver |-> resolver,
               result |-> ResolverRoot(resolver)]
    /\ UNCHANGED <<fs, anchors, builders, pushed, dic, views, config>>

NextResolver ==
    \/ \E r \in SingleResolvers, p \in CandidatePaths : CallCandidate(r, p)
    \/ \E r \in SingleResolvers : CallFilesystemRoots(r)

SpecResolver == InitResolver /\ [][NextResolver]_vars

----------------------------------------------------------------------------
(* Claims about EmbeddedAnchor, checked under SpecResolver *)

\* C17: EmbeddedAnchor::candidate(name) returns a compiled-in source exactly
\* when name is, as a whole string and case-sensitively, one of char.def,
\* rewrite.def, unk.def, sudachi.json; every other name yields no candidate,
\* and the resolver never reports a filesystem root
C17_EmbeddedExactNames ==
    /\ (ret.op = "candidate" /\ ret.resolver = EmbeddedAnchor)
       => LET exact == \E n \in {"char.def", "rewrite.def", "unk.def", "sudachi.json"} :
                          ret.path = [abs |-> FALSE, comps |-> <<n>>]
          IN  /\ exact => /\ ret.result # None
                          /\ ret.result.val.tag = "Borrowed"
                          /\ ret.result.val.bytes = EmbeddedBytes(ret.path.comps[1])
              /\ ~exact => ret.result = None
    /\ (ret.op = "filesystem_roots" /\ ret.resolver = EmbeddedAnchor)
       => ret.result = None

C17_Witness ==
    /\ ret.op = "candidate"
    /\ ret.resolver = EmbeddedAnchor
    /\ ret.path = RelPath(<<"rewrite.def">>)
    /\ ret.result = Some(Borrowed(EmbeddedBytes("rewrite.def")))

----------------------------------------------------------------------------
(* dic/storage.rs: Storage.  Bytes are sequences of numbers in 0..255.     *)

\* DataSource::Owned
Owned(v) == [tag |-> "Owned", bytes |-> v]

\* what the filesystem holds at a path, besides NoFile: a regular file with
\* its bytes, or a directory
FileBytes(c) == [kind |-> "bytes", bytes |-> c]
Directory == [kind |-> "dir"]

StorageFile(m) == [tag |-> "File", mapping |-> m]
StorageBorrowed(b) == [tag |-> "Borrowed", slice |-> b]
StorageOwned(v) == [tag |-> "Owned", vec |-> v]

\* SudachiError::Io as made from a std::io::Error by the ? operator
IoError(cause) == [kind |-> "Io", cause |-> cause, context |-> <<>>]

\* SudachiError::with_context
WithContext(e, ctx) == IF e.kind = "Io" THEN [e EXCEPT !.context = ctx] ELSE e

\* File::open: fails when nothing is at the path
FileOpen(path, disk) ==
    IF path \in DOMAIN disk /\ disk[path] # NoFile
    THEN Ok(disk[path])
    ELSE Err("NotFound")

\* (mutation of MmapMap: the mapping covers the file rounded up by a byte)
MmapMapPadded(file) ==
    IF file.kind = "bytes" THEN Ok(Append(file.bytes, 0)) ELSE Err("NoDevice")

\* Mmap::map: a read-only mapping over the full contents of a regular file;
\* a directory can be opened but not mapped
MmapMap(file) ==
    IF file.kind = "bytes" THEN Ok(file.bytes) ELSE Err("NoDevice")

\* Storage::from_path
FromPath(path, disk) ==
    LET file == FileOpen(path, disk)
    IN  IF file.tag = "Err" THEN Err(IoError(file.err))
        ELSE LET mapping == MmapMap(file.val)
             IN  IF mapping.tag = "Err" THEN Err(IoError(mapping.err))
                 ELSE Ok(StorageFile(mapping.val))

\* (mutation of TryFromDataSource: the error of from_path is passed on as it is)
TryFromDataSourceBare(value, disk) ==
    CASE value.tag = "File" -> FromPath(value.path, disk)
      [] value.tag = "Borrowed" -> Ok(StorageBorrowed(value.bytes))
      [] value.tag = "Owned" -> Ok(StorageOwned(value.bytes))

\* impl TryFrom<DataSource> for Storage
TryFromDataSource(value, disk) ==
    CASE value.tag = "File" ->
             LET r == FromPath(value.path, disk)
             IN  IF r.tag = "Err"
                 THEN Err(WithContext(r.err, PathString(value.path)))
                 ELSE r
      [] value.tag = "Borrowed" -> Ok(StorageBorrowed(value.bytes))
      [] value.tag = "Owned" -> Ok(StorageOwned(value.bytes))

\* impl AsRef<[u8]> for Storage
AsRef(self) ==
    CASE self.tag = "File" -> self.mapping
      [] self.tag = "Borrowed" -> self.slice
      [] self.tag = "Owned" -> self.vec

----------------------------------------------------------------------------
(* The Storage specification: data sources are converted over a filesystem *)
(* of files and directories, and the storages are read                      *)

\* longest content of a file, a slice or a buffer
MaxBytes == 2

RECURSIVE BytesOfLen(_)
BytesOfLen(n) ==
    IF n = 0 THEN {<<>>}
    ELSE {<<b>> \o s : b \in {0, 255}, s \in BytesOfLen(n - 1)}

Contents == UNION {BytesOfLen(n) : n \in 0..MaxBytes}

\* the paths that may hold something, and a path that never does
StoragePaths == {RelPath(<<"s">>), AbsPath(<<"t", "u">>)}
MissingPath == RelPath(<<"m">>)

DataSources ==
    {File(p) : p \in StoragePaths \cup {MissingPath}}
    \cup {Borrowed(c) : c \in Contents}
    \cup {Owned(c) : c \in Contents}

InitStorage ==
    /\ fs \in [StoragePaths -> {NoFile, Directory} \cup {FileBytes(c) : c \in Contents}]
    /\ anchors = [a \in AnchorIds |-> PathAnchorEmpty]
    /\ pushed = [a \in AnchorIds |-> <<>>]
    /\ builders = [b \in BuilderIds |-> NoBuilder]
    /\ dic = NoDic
    /\ views = {}
    /\ config = NoConfig
    /\ ret = [op |-> "none"]

\* Storage::try_from(source)
CallTryFrom(source) ==
    /\ ret' = [op |-> "try_from", source |-> source,
               result |-> TryFromDataSource(source, fs)]
    /\ UNCHANGED <<fs, anchors, builders, pushed, dic, views, config>>

\* (the storage just returned by try_from).as_ref()
CallAsRef ==
    /\ ret.op = "try_from"
    /\ ret.result.tag = "Ok"
    /\ ret' = [op |-> "as_ref", source |-> ret.source, self |-> ret.result.val,
               result |-> AsRef(ret.result.val)]
    /\ UNCHANGED <<fs, anchors, builders, pushed, dic, views, config>>

NextStorage ==
    \/ \E s \in DataSources : CallTryFrom(s)
    \/ CallAsRef

SpecStorage == InitStorage /\ [][NextStorage]_vars

----------------------------------------------------------------------------
(* Claims about Storage, checked under SpecStorage *)

\* C18: for any content C, the Storage built from a File whose file holds
\* C, from Borrowed(C) and from Owned(C) all expose as_ref() = C
C18_AsRefIsContent ==
    ret.op = "as_ref"
    => IF ret.source.tag = "File"
       THEN fs[ret.source.path] = [kind |-> "bytes", bytes |-> ret.result]
       ELSE ret.source.bytes = ret.result

C18_Witness ==
    /\ ret.op = "as_ref"
    /\ ret.source.tag = "File"
    /\ ret.result = <<255, 0>>

\* C19: the conversion always succeeds for Borrowed and Owned; for
\* File(path) it succeeds only when the file can be opened and mapped, and
\* otherwise returns an I/O error that carries the offending path as its
\* context, and no Storage
C19_TryFromFailsWithPath ==
    ret.op = "try_from"
    => IF ret.source.tag = "File"
       THEN LET p == ret.source.path
                usable == p \in DOMAIN fs /\ fs[p].kind = "bytes"
            IN  /\ usable <=> ret.result.tag = "Ok"
                /\ ~usable => /\ DOMAIN ret.result = {"tag", "err"}
                              /\ ret.result.err.kind = "Io"
                              /\ ret.result.err.context
                                     = IF p = RelPath(<<"s">>) THEN <<"s">>
                                       ELSE IF p = RelPath(<<"m">>) THEN <<"m">>
                                       ELSE <<"/", "t", "/", "u">>
       ELSE ret.result.tag = "Ok"

C19_Witness ==
    /\ ret.op = "try_from"
    /\ ret.source = File(AbsPath(<<"t", "u">>))
    /\ fs[AbsPath(<<"t", "u">>)] = Directory
    /\ ret.result.tag = "Err"

----------------------------------------------------------------------------
(* dic/storage.rs: SudachiDicData *)

\* SudachiDicData::new
SudachiDicDataNew(system) == [system |-> system, user |-> <<>>]

\* (mutation of AddUser: the storage is put in front of the list)
AddUserFront(self, user) == [self EXCEPT !.user = <<user>> \o @]

\* SudachiDicData::add_user
AddUser(self, user) == [self EXCEPT !.user = Append(@, user)]

\* SudachiDicData::system
System(self) == AsRef(self.system)

\* SudachiDicData::system_static_slice: the same bytes, lifetime unchecked
SystemStaticSlice(self) == System(self)

\* SudachiDicData::user_static_slice
UserStaticSlice(self) == [i \in 1..Len(self.user) |-> AsRef(self.user[i])]

----------------------------------------------------------------------------
(* The SudachiDicData specification: one object is made from a system      *)
(* storage, user storages are added and views are handed out at any time.  *)
(* pushed.dic lists the storages handed to new and add_user.  A view is    *)
(* recorded with the storage it points into (0 for the system storage, i   *)
(* for the i-th user storage) and the bytes it showed when handed out.     *)

\* most user dictionaries added
MaxUsers == 2

DicPath == RelPath(<<"s">>)
DicSources ==
    {File(DicPath), Borrowed(<<7>>), Owned(<<8, 9>>), Owned(<<>>)}

InitDicData ==
    /\ fs \in [{DicPath} -> {FileBytes(<<1>>), FileBytes(<<1, 2, 3>>)}]
    /\ anchors = [a \in AnchorIds |-> PathAnchorEmpty]
    /\ pushed = [d \in {"dic"} |-> <<>>]
    /\ builders = [b \in BuilderIds |-> NoBuilder]
    /\ dic = NoDic
    /\ views = {}
    /\ config = NoConfig
    /\ ret = [op |-> "none"]

\* dic = SudachiDicData::new(Storage::try_from(source)?)
CallDicNew(source) ==
    /\ dic = NoDic
    /\ dic' = SudachiDicDataNew(TryFromDataSource(source, fs).val)
    /\ pushed' = [pushed EXCEPT !["dic"] = <<TryFromDataSource(source, fs).val>>]
    /\ ret' = [op |-> "new"]
    /\ UNCHANGED <<fs, anchors, builders, views, config>>

\* dic.add_user(Storage::try_from(source)?)
CallAddUser(source) ==
    /\ dic # NoDic
    /\ Len(dic.user) < MaxUsers
    /\ dic' = AddUser(dic, TryFromDataSource(source, fs).val)
    /\ pushed' = [pushed EXCEPT !["dic"] =
                      Append(@, TryFromDataSource(source, fs).val)]
    /\ ret' = [op |-> "add_user"]
    /\ UNCHANGED <<fs, anchors, builders, views, config>>

\* dic.system()
CallSystem ==
    /\ dic # NoDic
    /\ ret' = [op |-> "system", result |-> System(dic)]
    /\ views' = views \cup {[storage |-> 0, bytes |-> System(dic)]}
    /\ UNCHANGED <<fs, anchors, builders, pushed, dic, config>>

\* dic.system_static_slice()
CallSystemStaticSlice ==
    /\ dic # NoDic
    /\ ret' = [op |-> "system_static_slice", result |-> SystemStaticSlice(dic)]
    /\ views' = views \cup {[storage |-> 0, bytes |-> SystemStaticSlice(dic)]}
    /\ UNCHANGED <<fs, anchors, builders, pushed, dic, config>>

\* dic.user_static_slice()
CallUserStaticSlice ==
    /\ dic # NoDic
    /\ ret' = [op |-> "user_static_slice", result |-> UserStaticSlice(dic)]
    /\ views' = views \cup {[storage |-> i, bytes |-> UserStaticSlice(dic)[i]] :
                               i \in 1..Len(dic.user)}
    /\ UNCHANGED <<fs, anchors, builders, pushed, dic, config>>

NextDicData ==
    \/ \E s \in DicSources : CallDicNew(s)
    \/ \E s \in DicSources : CallAddUser(s)
    \/ CallSystem
    \/ CallSystemStaticSlice
    \/ CallUserStaticSlice

SpecDicData == InitDicData /\ [][NextDicData]_vars

----------------------------------------------------------------------------
(* Claims about SudachiDicData, checked under SpecDicData *)

\* the bytes of a storage as it was handed in
BytesOf(storage) ==
    IF storage.tag = "File" THEN fs[DicPath].bytes
    ELSE IF storage.tag = "Borrowed" THEN storage.slice
    ELSE storage.vec

\* C20: after SudachiDicData::new(s) and any sequence of add_user(u1..un),
\* the system view is still the bytes of s, user_static_slice() returns
\* exactly n views equal to the bytes of u1..un in insertion order, and
\* every view handed out earlier still equals the bytes of its storage
C20_StoragesKeptInOrder ==
    dic # NoDic
    => LET handed == pushed["dic"]
           n == Len(handed) - 1
       IN  /\ ret.op \in {"system", "system_static_slice"}
              => ret.result = BytesOf(handed[1])
           /\ ret.op = "user_static_slice"
              => /\ Len(ret.result) = n
                 /\ \A i \in 1..n : ret.result[i] = BytesOf(handed[i + 1])
           /\ \A v \in views :
                 /\ v.storage <= Len(dic.user)
                 /\ v.bytes = BytesOf(handed[v.storage + 1])
                 /\ v.bytes = AsRef(IF v.storage = 0 THEN dic.system
                                    ELSE dic.user[v.storage])

C20_Witness ==
    /\ dic # NoDic
    /\ ret.op = "user_static_slice"
    /\ Len(ret.result) = 2
    /\ ret.result[1] # ret.result[2]
    /\ \E v \in views : v.storage = 0
    /\ \E v \in views : v.storage = 1

----------------------------------------------------------------------------
(* The projection specification: texts are converted by try_from, and      *)
(* settings documents with a `projection` key are parsed                    *)

ProjectionTokens ==
    {"surface", "normalized", "reading", "dictionary",
     "dictionary_and_surface", "normalized_and_surface", "normalized_nouns"}

\* the tokens in other spellings: upper case, capitalised, as the variant is
\* named in the source, and followed by a blank
OtherSpellings ==
    {"SURFACE", "NORMALIZED", "READING", "DICTIONARY",
     "DICTIONARY_AND_SURFACE", "NORMALIZED_AND_SURFACE", "NORMALIZED_NOUNS",
     "Surface", "Normalized", "Reading", "Dictionary",
     "Dictionary_and_surface", "Normalized_and_surface", "Normalized_nouns",
     "DictionaryAndSurface", "NormalizedAndSurface", "NormalizedNouns",
     "dictionaryAndSurface", "normalizedAndSurface", "normalizedNouns",
     "surface ", "normalized ", "reading ", "dictionary ",
     "dictionary_and_surface ", "normalized_and_surface ", "normalized_nouns ",
     "dictionary-and-surface", "normalized-and-surface", "normalized-nouns"}

ProjectionTexts ==
    ProjectionTokens \cup OtherSpellings \cup {"", "bogus", "null", "default"}

\* the rest of the document the `projection` key is put into
ProjectionDocs == {DocEmpty, DocSystem, DocPath}

InitProjection ==
    /\ fs = [p \in {} |-> NoFile]
    /\ anchors = [a \in AnchorIds |-> PathAnchorEmpty]
    /\ pushed = [a \in AnchorIds |-> <<>>]
    /\ builders = [b \in BuilderIds |-> NoBuilder]
    /\ dic = NoDic
    /\ views = {}
    /\ config = NoConfig
    /\ ret = [op |-> "none"]

\* SurfaceProjection::try_from(value)
CallProjectionTryFrom(value) ==
    /\ ret' = [op |-> "try_from", value |-> value,
               result |-> SurfaceProjectionTryFrom(value)]
    /\ UNCHANGED <<fs, anchors, builders, pushed, dic, views, config>>

\* ConfigBuilder::from_bytes of the document doc with "projection": value
CallParseProjection(doc, value) ==
    /\ ret' = [op |-> "from_bytes", value |-> value, doc |-> doc,
               result |-> FromBytes(Json([k \in DOMAIN doc \cup {"projection"} |->
                              IF k = "projection" THEN value ELSE doc[k]]))]
    /\ UNCHANGED <<fs, anchors, builders, pushed, dic, views, config>>

NextProjection ==
    \/ \E t \in ProjectionTexts : CallProjectionTryFrom(t)
    \/ \E d \in ProjectionDocs, v \in ProjectionTexts \cup {JsonNull} :
          CallParseProjection(d, v)

SpecProjection == InitProjection /\ [][NextProjection]_vars

----------------------------------------------------------------------------
(* Claims about SurfaceProjection, checked under SpecProjection *)

\* the variant each of the seven tokens stands for
VariantOfToken ==
    [t \in ProjectionTokens |->
        CASE t = "surface" -> "Surface"
          [] t = "normalized" -> "Normalized"
          [] t = "reading" -> "Reading"
          [] t = "dictionary" -> "Dictionary"
          [] t = "dictionary_and_surface" -> "DictionaryAndSurface"
          [] t = "normalized_and_surface" -> "NormalizedAndSurface"
          [] OTHER -> "NormalizedNouns"]

----------------------------------------------------------------------------
(* sudachi-cli/src/main.rs: strip_eol and the read loop.  A line is the    *)
(* sequence of its characters.                                              *)

\* strip_eol
StripEol(data) ==
    LET len == Len(data)
    IN  IF len > 1 /\ data[len] = "\n"
        THEN LET len1 == len - 1
                 bytes1 == SubSeq(data, 1, len1)
             IN  IF len1 > 1 /\ bytes1[len1] = "\r"
                 THEN SubSeq(bytes1, 1, len1 - 1)
                 ELSE bytes1
        ELSE data

----------------------------------------------------------------------------
(* The command line specification: lines are read and stripped *)

\* longest line read
MaxLine == 4

LineChars == {"a", "\r", "\n"}

RECURSIVE LinesOfLen(_)
LinesOfLen(n) ==
    IF n = 0 THEN {<<>>}
    ELSE {Append(s, c) : s \in LinesOfLen(n - 1), c \in LineChars}

EolLines == UNION {LinesOfLen(n) : n \in 0..MaxLine}

\* what BufRead::read_line can return with a count above 0: a non-empty
\* line with no "\n" before its last character
IsReadLine(line) ==
    /\ line # <<>>
    /\ \A i \in 1..(Len(line) - 1) : line[i] # "\n"

InitCli ==
    /\ fs = [p \in {} |-> NoFile]
    /\ anchors = [a \in AnchorIds |-> PathAnchorEmpty]
    /\ pushed = [a \in AnchorIds |-> <<>>]
    /\ builders = [b \in BuilderIds |-> NoBuilder]
    /\ dic = NoDic
    /\ views = {}
    /\ config = NoConfig
    /\ ret = [op |-> "none"]

\* strip_eol(data)
CallStripEol(data) ==
    /\ ret' = [op |-> "strip_eol", data |-> data, result |-> StripEol(data)]
    /\ UNCHANGED <<fs, anchors, builders, pushed, dic, views, config>>

\* one turn of the read loop of main: a line is read into data, stripped,
\* handed to the analyzer, and data is cleared
ReadLoopTurn(line) ==
    /\ IsReadLine(line)
    /\ ret' = [op |-> "read_line", data |-> line, result |-> StripEol(line)]
    /\ UNCHANGED <<fs, anchors, builders, pushed, dic, views, config>>

NextCli ==
    \/ \E d \in EolLines : CallStripEol(d)
    \/ \E l \in EolLines : ReadLoopTurn(l)

SpecCli == InitCli /\ [][NextCli]_vars

----------------------------------------------------------------------------
(* Claims about strip_eol, checked under SpecCli *)

\* C22: strip_eol(line) removes one trailing line terminator, a final "\n"
\* together with a "\r" directly before it, whenever the line ends with one,
\* also when the line is the terminator alone, and returns every line
\* without a trailing "\n" unchanged
C22_StripEolRemovesTerminator ==
    ret.op \in {"strip_eol", "read_line"}
    => LET d == ret.data
           n == Len(d)
       IN  IF n >= 2 /\ d[n - 1] = "\r" /\ d[n] = "\n"
           THEN ret.result = SubSeq(d, 1, n - 2)
           ELSE IF n >= 1 /\ d[n] = "\n"
           THEN ret.result = SubSeq(d, 1, n - 1)
           ELSE ret.result = d

----------------------------------------------------------------------------
(* The move specification: anchors are appended to anchors and to builder  *)
(* A, and the builders are merged and built.  Every file an anchor can     *)
(* name is on disk, so that a resolution fails only for want of resolvers. *)

MoveIds == {"A", "B"}
MoveDocs == {DocEmpty, DocPath}

InitMove ==
    /\ fs = [p \in AnchorFiles |-> RawBytes]
    /\ anchors = [a \in AnchorIds |-> PathAnchorEmpty]
    /\ pushed = [a \in AnchorIds |-> <<>>]
    /\ builders = [b \in BuilderIds |-> NoBuilder]
    /\ dic = NoDic
    /\ views = {}
    /\ config = NoConfig
    /\ ret = [op |-> "none"]

\* a.filesystem_roots()
CallAnchorFilesystemRoots(a) ==
    /\ ret' = [op |-> "filesystem_roots", chain |-> anchors[a],
               result |-> FilesystemRoots(anchors[a])]
    /\ UNCHANGED <<fs, anchors, builders, pushed, dic, views, config>>

\* let x = ConfigBuilder::from_bytes_and_anchor(doc, anchor)?
BindWithAnchor(x, doc, anchor) ==
    /\ builders[x] = NoBuilder
    /\ x = "B" => (doc = DocPath /\ anchor = PathAnchorNewDefault)
    /\ builders' = [builders EXCEPT ![x] = FromBytesAndAnchor(Json(doc), anchor).val]
    /\ ret' = [op |-> "from_bytes_and_anchor", self |-> x]
    /\ UNCHANGED <<fs, anchors, pushed, dic, views, config>>

\* let x = x.append_anchor(&mut a)
CallAppendAnchor(x, a) ==
    /\ x = "A"
    /\ builders[x] # NoBuilder
    /\ Len(builders[x].anchor) + Len(anchors[a]) <= MaxChain
    /\ builders' = [builders EXCEPT ![x] =
                       WithAnchor(@, AppendSelf(builders[x].anchor, anchors[a]))]
    /\ anchors' = [anchors EXCEPT ![a] = AppendOther(builders[x].anchor, anchors[a])]
    /\ pushed' = [pushed EXCEPT ![a] = <<>>]
    /\ ret' = [op |-> "append_anchor", self |-> x, other |-> a,
               selfBefore |-> builders[x].anchor, otherBefore |-> anchors[a]]
    /\ UNCHANGED <<fs, dic, views, config>>

\* x.clone().fallback(&y): a copy of x is moved into the call, y is borrowed
CallFallbackBorrowing(x, y) ==
    /\ x # y
    /\ builders[x] # NoBuilder
    /\ builders[y] # NoBuilder
    /\ ret' = [op |-> "fallback", self |-> x, other |-> y, before |-> builders,
               result |-> Fallback(builders[x], builders[y])]
    /\ UNCHANGED <<fs, anchors, builders, pushed, dic, views, config>>

\* x.clone().build(): the builder is kept, a copy of it is built
CallBuildClone(x) ==
    /\ builders[x] # NoBuilder
    /\ ret' = [op |-> "build", self |-> x, before |-> builders,
               result |-> Build(builders[x])]
    /\ UNCHANGED <<fs, anchors, builders, pushed, dic, views, config>>

NextMove ==
    \/ \E a \in AnchorIds : NewDefault(a)
    \/ \E a \in AnchorIds, p \in AnchorRoots : NewFilesystem(a, p)
    \/ \E a, b \in AnchorIds : AppendAnchor(a, b)
    \/ \E a \in AnchorIds, n \in QueryNames : CallResolve(a, n)
    \/ \E a \in AnchorIds : CallAnchorFilesystemRoots(a)
    \/ \E x \in MoveIds, d \in MoveDocs, a \in BuilderAnchors : BindWithAnchor(x, d, a)
    \/ \E x \in MoveIds, a \in AnchorIds : CallAppendAnchor(x, a)
    \/ \E x, y \in MoveIds : CallFallbackBorrowing(x, y)
    \/ \E x \in MoveIds : CallBuildClone(x)

SpecMove == InitMove /\ [][NextMove]_vars

----------------------------------------------------------------------------
(* Claims about moving and cloning anchors, checked under SpecMove *)

\* C23: PathAnchor::append moves resolvers rather than copying them: after
\* a.append(b) the argument b has an empty chain, so resolving any name
\* against b fails and its filesystem_roots is empty; fallback and build
\* append a clone and leave the anchor they take the resolvers from intact
C23_AppendMovesOthersClone ==
    /\ ret.op \in {"append", "append_anchor"}
       => /\ anchors[ret.other] = <<>>
          /\ \A n \in QueryNames : Resolve(anchors[ret.other], n, fs).tag = "Err"
          /\ FilesystemRoots(anchors[ret.other]) = <<>>
          /\ ret.op = "append"
             => anchors[ret.self] = ret.selfBefore \o ret.otherBefore
          /\ ret.op = "append_anchor"
             => builders[ret.self].anchor = ret.selfBefore \o ret.otherBefore
    /\ ret.op = "fallback"
       => /\ builders[ret.other] = ret.before[ret.other]
          /\ ret.result.anchor
                 = ret.before[ret.self].anchor \o ret.before[ret.other].anchor
    /\ ret.op = "build"
       => /\ builders[ret.self] = ret.before[ret.self]
          /\ LET src == builders[ret.self]
             IN  ret.result.anchor
                     = (IF src.path = None THEN <<>>
                        ELSE <<[kind |-> "FileSystem", root |-> src.path.val]>>)
                       \o src.anchor

C23_Witness ==
    /\ ret.op = "append"
    /\ Len(ret.otherBefore) >= 2
    /\ ret.selfBefore # <<>>
    /\ \E n \in QueryNames : Resolve(ret.otherBefore, n, fs).tag = "Ok"
    /\ FilesystemRoots(ret.otherBefore) # <<>>
    /\ anchors[ret.other] = <<>>

====
